---- MODULE Spec2Model ----
(***************************************************************************)
(* Model of the session endpoint handler of src/api/session.js (lines      *)
(* 1-173): origin allow-listing, the in-memory sliding-window rate         *)
(* limiter, the credential check and the upstream call with timeout,       *)
(* retries and exponential backoff.                                        *)
(*                                                                         *)
(* JavaScript strings that the handler inspects character by character    *)
(* (header values, allow-list entries) are sequences of one-character      *)
(* strings; an absent header and the empty string are both <<>>, which is  *)
(* what the `||` chains of the handler see (both are falsy).  Texts the    *)
(* handler only passes along (response bodies, error messages) are TLA+    *)
(* strings.                                                                *)
(***************************************************************************)
EXTENDS Naturals, Integers, Sequences, FiniteSets, TLC

VARIABLES
    env,            \* process.env: OPENAI_API_KEY, ALLOWED_ORIGINS, SESSION_INSTRUCTIONS
    allowedOrigins, \* module constant computed at load time (lines 15-17)
    rateLimitMap,   \* the Map of line 5: client key -> sequence of timestamps
    now,            \* Date.now(), in milliseconds
    inv,            \* one record per handler invocation slot (see IdleInv)
    history         \* ghost: client key -> every admission time, never pruned

vars == <<env, allowedOrigins, rateLimitMap, now, inv, history>>

(***************************************************************************)
(* Program constants.                                                      *)
(***************************************************************************)
RATE_LIMIT_WINDOW_MS == 60000
RATE_LIMIT_MAX == 8
FETCH_TIMEOUT_MS == 15000
MAX_SESSION_RETRIES == 2
BackoffBaseMs == 500

(***************************************************************************)
(* Bounds of the model.                                                    *)
(***************************************************************************)
NumInv == 2            \* invocations that may be in progress at once
MaxAdmittedRL == 16    \* SpecRL: admissions after which no request starts (two full windows)
MaxAdmittedUp == 2     \* the same for SpecUp
MaxAdmittedGuard == 2  \* the same for SpecGuard
MaxAdmittedNoCred == 9 \* the same for SpecNoCred: one full window and one more
MaxAdmittedConc == 9   \* the same for SpecConc
MaxAdmittedLive == 1   \* the same for SpecLive
MaxAdmittedAdmit == 9  \* the same for SpecAdmit
MaxNow == 60001        \* the clock stops advancing here
MaxNowConc == 16500    \* the same for Spec: one timeout and both backoff sleeps

Inv == 1..NumInv

(***************************************************************************)
(* Strings as sequences of characters.                                     *)
(***************************************************************************)
Upper == <<"A","B","C","D","E","F","G","H","I","J","K","L","M",
           "N","O","P","Q","R","S","T","U","V","W","X","Y","Z">>
LowerOf == <<"a","b","c","d","e","f","g","h","i","j","k","l","m",
             "n","o","p","q","r","s","t","u","v","w","x","y","z">>
Digits == {"0","1","2","3","4","5","6","7","8","9"}

UpperSet == {Upper[k] : k \in 1..26}
LowerSet == {LowerOf[k] : k \in 1..26}
\* the lower-case letter of each upper-case letter
LowerTable == [u \in UpperSet |-> LowerOf[CHOOSE k \in 1..26 : Upper[k] = u]]

IsUpper(c) == c \in UpperSet
IsLower(c) == c \in LowerSet
IsAlpha(c) == IsUpper(c) \/ IsLower(c)

LowerChar(c) == IF IsUpper(c) THEN LowerTable[c] ELSE c

\* String.prototype.toLowerCase
ToLowerCase(s) == [k \in 1..Len(s) |-> LowerChar(s[k])]

\* String.prototype.startsWith
StartsWith(s, p) == Len(p) <= Len(s) /\ SubSeq(s, 1, Len(p)) = p

\* String.prototype.includes
Includes(s, p) == \E k \in 0..(Len(s) - Len(p)) : SubSeq(s, k + 1, k + Len(p)) = p

\* s.replace(/\/$/, ''): one trailing slash is removed
StripTrailingSlash(s) ==
    IF Len(s) > 0 /\ s[Len(s)] = "/" THEN SubSeq(s, 1, Len(s) - 1) ELSE s

SchemeSep == <<":", "/", "/">>
HttpPrefix == <<"h","t","t","p",":","/","/">>
HttpsPrefix == <<"h","t","t","p","s",":","/","/">>

\* a.replace(/^https?:\/\//, '')
StripProtocol(a) ==
    IF StartsWith(a, HttpsPrefix) THEN SubSeq(a, Len(HttpsPrefix) + 1, Len(a))
    ELSE IF StartsWith(a, HttpPrefix) THEN SubSeq(a, Len(HttpPrefix) + 1, Len(a))
    ELSE a

\* String.prototype.trim, for the blanks of a comma-separated list
RECURSIVE TrimLeft(_)
TrimLeft(s) == IF Len(s) > 0 /\ s[1] = " " THEN TrimLeft(Tail(s)) ELSE s
RECURSIVE TrimRight(_)
TrimRight(s) ==
    IF Len(s) > 0 /\ s[Len(s)] = " " THEN TrimRight(SubSeq(s, 1, Len(s) - 1)) ELSE s
Trim(s) == TrimRight(TrimLeft(s))

\* index of the first character of s that is in set cs, or Len(s) + 1
FirstOf(s, cs) ==
    IF \E k \in 1..Len(s) : s[k] \in cs
    THEN CHOOSE k \in 1..Len(s) : s[k] \in cs /\ \A j \in 1..(k - 1) : s[j] \notin cs
    ELSE Len(s) + 1

\* String.prototype.split(",")
RECURSIVE Split(_)
Split(s) ==
    LET k == FirstOf(s, {","})
    IN  IF k > Len(s) THEN <<s>>
        ELSE <<SubSeq(s, 1, k - 1)>> \o Split(SubSeq(s, k + 1, Len(s)))

(***************************************************************************)
(* new URL(s).origin (line 30), for the strings the model feeds it: no     *)
(* userinfo, no IPv6 literal, no backslash, and a host that is a domain    *)
(* name or a dotted quad in canonical form.  The scheme is everything      *)
(* before the first colon and must be a letter followed by letters,        *)
(* digits, "+", "-" or "."; for the special schemes with a tuple origin    *)
(* the slashes after the colon are skipped, the host runs to the first     *)
(* "/", "?" or "#", is lower-cased and must not be empty, and the port is  *)
(* dropped when it is the scheme's default.  Every other scheme has an     *)
(* opaque origin, which serialises as "null".  A string that does not      *)
(* parse makes the constructor throw.                                      *)
(***************************************************************************)
DigitSeq == <<"0","1","2","3","4","5","6","7","8","9">>
DigitVal(c) == (CHOOSE k \in 1..10 : DigitSeq[k] = c) - 1

RECURSIVE NumVal(_)
NumVal(s) == IF s = <<>> THEN 0
             ELSE 10 * NumVal(SubSeq(s, 1, Len(s) - 1)) + DigitVal(s[Len(s)])

RECURSIVE Decimal(_)
Decimal(n) == IF n < 10 THEN <<DigitSeq[n + 1]>>
              ELSE Decimal(n \div 10) \o <<DigitSeq[(n % 10) + 1]>>

RECURSIVE SkipSlashes(_)
SkipSlashes(s) == IF Len(s) > 0 /\ s[1] = "/" THEN SkipSlashes(Tail(s)) ELSE s

DefaultPort(scheme) ==
    CASE scheme = <<"h","t","t","p">> -> 80
      [] scheme = <<"w","s">> -> 80
      [] scheme = <<"h","t","t","p","s">> -> 443
      [] scheme = <<"w","s","s">> -> 443
      [] scheme = <<"f","t","p">> -> 21
      [] OTHER -> 0

HostChar(c) == IsAlpha(c) \/ c \in Digits \/ c \in {".", "-"}
NullOrigin == <<"n","u","l","l">>
UrlThrows == [ok |-> FALSE, origin |-> <<>>]

UrlOrigin(s) ==
    LET c == FirstOf(s, {":"})
        scheme == ToLowerCase(SubSeq(s, 1, c - 1))
        schemeOk == /\ c > 1
                    /\ c <= Len(s)
                    /\ IsAlpha(s[1])
                    /\ \A k \in 2..(c - 1) :
                          IsAlpha(s[k]) \/ s[k] \in Digits \/ s[k] \in {"+", "-", "."}
        rest == SkipSlashes(SubSeq(s, c + 1, Len(s)))
        authority == SubSeq(rest, 1, FirstOf(rest, {"/", "?", "#"}) - 1)
        p == FirstOf(authority, {":"})
        host == ToLowerCase(SubSeq(authority, 1, p - 1))
        port == SubSeq(authority, p + 1, Len(authority))
        portOk == (\A k \in 1..Len(port) : port[k] \in Digits) /\ NumVal(port) < 65536
        hostOk == host # <<>> /\ \A k \in 1..Len(host) : HostChar(host[k])
    IN  IF ~schemeOk THEN UrlThrows
        ELSE IF DefaultPort(scheme) = 0 THEN [ok |-> TRUE, origin |-> NullOrigin]
        ELSE IF ~hostOk \/ ~portOk THEN UrlThrows
        ELSE [ok |-> TRUE,
              origin |-> scheme \o SchemeSep \o host \o
                         (IF port = <<>> \/ NumVal(port) = DefaultPort(scheme)
                          THEN <<>> ELSE <<":">> \o Decimal(NumVal(port)))]

(***************************************************************************)
(* The allow-list (lines 10-17).                                           *)
(***************************************************************************)
DEFAULT_ALLOWED ==
    << <<"h","t","t","p","s",":","/","/","c","y","b","e","r","-","a","g","e","n","t",
         "-","r","h","o",".","v","e","r","c","e","l",".","a","p","p">>,
       <<"h","t","t","p",":","/","/","l","o","c","a","l","h","o","s","t",":","3","0","0","0">>,
       <<"h","t","t","p",":","/","/","1","2","7",".","0",".","0",".","1",":","3","0","0","0">> >>

\* process.env.ALLOWED_ORIGINS ? ...split(",").map(trim).filter(Boolean) : DEFAULT_ALLOWED
ParseAllowed(e) ==
    IF e = <<>> THEN DEFAULT_ALLOWED
    ELSE LET parts == Split(e)
             trimmed == [k \in 1..Len(parts) |-> Trim(parts[k])]
         IN  SelectSeq(trimmed, LAMBDA a : a # <<>>)

(***************************************************************************)
(* The origin guard (lines 24-55).                                         *)
(***************************************************************************)
\* req.headers.origin || req.headers.referer || ""
RawOrigin(r) == IF r.origin # <<>> THEN r.origin ELSE r.referer

\* lines 26-35
OriginToCheck(rawOrigin) ==
    IF Includes(rawOrigin, SchemeSep) /\ UrlOrigin(rawOrigin).ok
    THEN UrlOrigin(rawOrigin).origin
    ELSE rawOrigin

\* lines 37-38
Normalize(s) == ToLowerCase(StripTrailingSlash(s))
NormalizedAllowed(allowed) == [k \in 1..Len(allowed) |-> Normalize(allowed[k])]

MatchesSwapped(normalizedOrigin, a) ==
    /\ a # <<>>
    /\ \/ normalizedOrigin = a
       \/ StartsWith(a, normalizedOrigin)
       \/ Includes(StripProtocol(a), normalizedOrigin)
\* the callback of normalizedAllowed.some (lines 40-49)
Matches(normalizedOrigin, a) ==
    /\ a # <<>>
    /\ \/ normalizedOrigin = a
       \/ StartsWith(normalizedOrigin, a)
       \/ Includes(normalizedOrigin, StripProtocol(a))

GuardAppliesToAnyOrigin(r, allowed) == RawOrigin(r) # <<>>
\* whether the guard's block runs at all (line 25)
GuardApplies(r, allowed) == Len(allowed) > 0 /\ RawOrigin(r) # <<>>

\* `ok` of line 40
OriginOk(r, allowed) ==
    LET na == NormalizedAllowed(allowed)
        no == Normalize(OriginToCheck(RawOrigin(r)))
    IN  \E k \in 1..Len(na) : Matches(no, na[k])

(***************************************************************************)
(* The rate limiter (lines 57-67).                                         *)
(***************************************************************************)
\* Line 58.  `origin` is not declared anywhere in the module, so when both
\* the header and the socket address are falsy the `||` chain reaches it and
\* the evaluation throws a ReferenceError; the literal "unknown" is never
\* reached.
ClientKey(r) ==
    IF r.xff # <<>> THEN [thrown |-> FALSE, key |-> r.xff]
    ELSE IF r.remote # <<>> THEN [thrown |-> FALSE, key |-> r.remote]
    ELSE [thrown |-> TRUE, key |-> <<>>]

\* rateLimitMap.get(ip) || []
MapGet(m, k) == IF k \in DOMAIN m THEN m[k] ELSE <<>>
MapSetDropped(m, k, v) == m
\* rateLimitMap.set(ip, v)
MapSet(m, k, v) == (k :> v) @@ m

InWindowStrict(t, windowStart) == t > windowStart
\* the filter callback of line 61
InWindow(t, windowStart) == t >= windowStart
PrunedNever(stamps, at) == stamps
Pruned(stamps, at) ==
    LET windowStart == at - RATE_LIMIT_WINDOW_MS
    IN  SelectSeq(stamps, LAMBDA t : InWindow(t, windowStart))
OverLimitLate(n) == n > RATE_LIMIT_MAX
\* line 62
OverLimit(n) == n >= RATE_LIMIT_MAX
\* Math.ceil(RATE_LIMIT_WINDOW_MS / 1000), line 63
RetryAfterSeconds == (RATE_LIMIT_WINDOW_MS + 999) \div 1000

RateLimitCountsRejected(m, key, at) ==
    LET timestamps == Pruned(MapGet(m, key), at)
    IN  [admitted |-> ~OverLimit(Len(timestamps)),
         map |-> MapSet(m, key, Append(timestamps, at))]
\* lines 59-67: the decision for `key` at time `at` and the map it leaves.
\* `timestamps` is the copy made by filter; it is stored only after the push
\* of line 66, which the return of line 64 skips.
RateLimit(m, key, at) ==
    LET timestamps == Pruned(MapGet(m, key), at)
    IN  IF OverLimit(Len(timestamps))
        THEN [admitted |-> FALSE, map |-> m]
        ELSE [admitted |-> TRUE, map |-> MapSet(m, key, Append(timestamps, at))]

LedgerAfterCountsRefused(r, allowed, m, at) ==
    IF ClientKey(r).thrown THEN m
    ELSE RateLimit(m, ClientKey(r).key, at).map
\* lines 25-67: the map when the handler returns or reaches line 71.  The
\* return of line 53 and the throw of line 58 come before the map is read.
LedgerAfter(r, allowed, m, at) ==
    IF GuardApplies(r, allowed) /\ ~OriginOk(r, allowed) THEN m
    ELSE IF ClientKey(r).thrown THEN m
    ELSE RateLimit(m, ClientKey(r).key, at).map

(***************************************************************************)
(* The retry policy (lines 95-161).                                        *)
(***************************************************************************)
RECURSIVE Pow2(_)
Pow2(n) == IF n = 0 THEN 1 ELSE 2 * Pow2(n - 1)
BackoffConstant(attempt) == BackoffBaseMs
BackoffFromOne(attempt) == BackoffBaseMs * Pow2(attempt + 1)
\* 500 * Math.pow(2, attempt), lines 140 and 154
Backoff(attempt) == BackoffBaseMs * Pow2(attempt)
\* resp.ok
RespOk(status) == status >= 200 /\ status <= 299
RetryAnyStatus(status, attempt) == attempt < MAX_SESSION_RETRIES
\* the condition of line 139
RetryStatus(status, attempt) == status >= 500 /\ attempt < MAX_SESSION_RETRIES
RetryThrownOnceMore(attempt) == attempt <= MAX_SESSION_RETRIES
\* the condition of line 153
RetryThrown(attempt) == attempt < MAX_SESSION_RETRIES

(***************************************************************************)
(* State of one invocation of handler(req, res).                           *)
(*   pc       where the invocation is: "idle" (not started), "fetch"       *)
(*            (awaiting fetchWithTimeout, line 99), "text" (awaiting       *)
(*            resp.text(), line 135), "json" (awaiting resp.json(), line   *)
(*            148), "sleep" (awaiting the backoff timer, lines 141 and     *)
(*            155), "done" (a response was sent and the handler returned)  *)
(*            or "crashed" (the handler threw outside its try block)       *)
(*   req      the request: origin, referer, xff (x-forwarded-for) and      *)
(*            remote (req.socket.remoteAddress)                            *)
(*   ip       the client key of line 58, <<>> while not computed           *)
(*   attempt, lastErr, data   the variables of lines 95-97                 *)
(*   status   resp.status of the response whose body is awaited            *)
(*   timer    the deadline of the pending setTimeout, -1 when none         *)
(*   sent     the responses sent through res, in order                     *)
(* and, as ghosts, stages (the steps of the handler that ran), calls (the  *)
(* number of fetch calls issued), sleeps (the backoff delays awaited), ups *)
(* (how each upstream attempt ended), rl (the rate limiter's decision) and *)
(* parsed (the value resp.json() resolved with, before line 167) and       *)
(* issued (the time of the latest fetch call, -1 before the first).        *)
(***************************************************************************)
NoReq == [origin |-> <<>>, referer |-> <<>>, xff |-> <<>>, remote |-> <<>>]
NoErr == [message |-> "", detail |-> ""]
NoData == [kind |-> "none", fields |-> <<>>]
NoRl == [at |-> -1, before |-> 0, admitted |-> FALSE]

IdleInv ==
    [pc |-> "idle", req |-> NoReq, ip |-> <<>>, attempt |-> 0, lastErr |-> NoErr,
     data |-> NoData, status |-> 0, timer |-> -1, sent |-> <<>>, stages |-> <<>>,
     calls |-> 0, sleeps |-> <<>>, ups |-> <<>>, rl |-> NoRl, parsed |-> NoData,
     issued |-> -1]

\* res.status(s).json(body), with the Retry-After header when it was set
Response(s, retryAfter, error, detail, body) ==
    [status |-> s, retryAfter |-> retryAfter, error |-> error, detail |-> detail,
     body |-> body]

NoBody == [origin |-> <<>>, allowed |-> <<>>, fields |-> <<>>]

MissingKeyMsg == "OPENAI_API_KEY niet ingesteld in Vercel"
SessionFailedMsg == "OpenAI realtime session creation failed"
AbortErrorMsg == "AbortError: This operation was aborted"
NullDataMsg == "Cannot set properties of null (setting 'instructions')"
PrimitiveDataMsg == "Cannot create property 'instructions' on number '1'"
DefaultInstructions == "Je bent een cyberpunk AI-agent ..."

RECURSIVE SumLens(_, _)
SumLens(f, ks) ==
    IF ks = {} THEN 0
    ELSE LET k == CHOOSE x \in ks : TRUE IN Len(f[k]) + SumLens(f, ks \ {k})
\* ghost: how many requests the rate limiter has admitted so far
TotalAdmitted == SumLens(history, DOMAIN history)

CredentialNeverMissing(e) == FALSE
CredentialMissingInverted(e) == e.OPENAI_API_KEY # <<>>
\* !apiKey, lines 71-72
CredentialMissing(e) == e.OPENAI_API_KEY = <<>>

IssueFetchKeepsTimer(v) ==
    [v EXCEPT !.pc = "fetch", !.calls = @ + 1, !.issued = now,
              !.status = 0, !.stages = Append(@, "fetch")]
\* fetchWithTimeout is called (line 99): the timer of line 86 is armed
IssueFetch(v) ==
    [v EXCEPT !.pc = "fetch", !.calls = @ + 1, !.timer = now + FETCH_TIMEOUT_MS,
              !.issued = now, !.status = 0, !.stages = Append(@, "fetch")]

(***************************************************************************)
(* handler(req, res) from its entry to its first await or return: the      *)
(* origin guard, the rate limiter, the credential check and the first      *)
(* upstream call.  Nothing in these lines awaits, so they run as one step. *)
(***************************************************************************)
Handler(i, r) ==
    /\ inv[i].pc \in {"idle", "done", "crashed"}
    /\ LET v0 == [IdleInv EXCEPT !.req = r]
           guarded == GuardApplies(r, allowedOrigins)
           v1 == IF guarded THEN [v0 EXCEPT !.stages = <<"origin">>] ELSE v0
           k == ClientKey(r)
           v2 == [v1 EXCEPT !.stages = Append(@, "key")]
           stamps == MapGet(rateLimitMap, k.key)
           timestamps == Pruned(stamps, now)
           v3 == [v2 EXCEPT !.ip = k.key, !.stages = Append(@, "ratelimit"),
                            !.rl = [at |-> now, before |-> Len(MapGet(history, k.key)),
                                    admitted |-> ~OverLimit(Len(timestamps))]]
           v4 == [v3 EXCEPT !.stages = Append(@, "credential")]
       IN  IF guarded /\ ~OriginOk(r, allowedOrigins)
           THEN \* line 53
                /\ inv' = [inv EXCEPT ![i] = [v1 EXCEPT
                       !.pc = "done",
                       !.sent = <<Response(403, 0, "Origin not allowed", "",
                                   [NoBody EXCEPT
                                      !.origin = OriginToCheck(RawOrigin(r)),
                                      !.allowed = NormalizedAllowed(allowedOrigins)])>>]]
                /\ UNCHANGED history
           ELSE IF k.thrown
           THEN \* line 58 throws outside the try block of line 76: the
                \* promise of the handler rejects and nothing was sent
                /\ inv' = [inv EXCEPT ![i] = [v2 EXCEPT !.pc = "crashed"]]
                /\ UNCHANGED history
           ELSE IF OverLimit(Len(timestamps))
           THEN \* lines 63-64
                /\ inv' = [inv EXCEPT ![i] = [v3 EXCEPT
                       !.pc = "done",
                       !.sent = <<Response(429, RetryAfterSeconds,
                                           "Too many requests", "", NoBody)>>]]
                /\ UNCHANGED history
           ELSE \* lines 66-67
                /\ history' = MapSet(history, k.key, Append(MapGet(history, k.key), now))
                /\ IF CredentialMissing(env)
                   THEN \* line 73
                        inv' = [inv EXCEPT ![i] = [v4 EXCEPT
                            !.pc = "done",
                            !.sent = <<Response(500, 0, MissingKeyMsg, "", NoBody)>>]]
                   ELSE inv' = [inv EXCEPT ![i] = IssueFetch(v4)]
    /\ rateLimitMap' = LedgerAfter(r, allowedOrigins, rateLimitMap, now)
    /\ UNCHANGED <<env, allowedOrigins, now>>

(***************************************************************************)
(* The catch block of lines 150-160, entered with the thrown value's       *)
(* String(err) after the finally of line 91 cleared the timer.             *)
(***************************************************************************)
Caught(v, e) ==
    LET w == [v EXCEPT !.lastErr = [message |-> e, detail |-> ""], !.timer = -1,
                       !.ups = Append(@, [kind |-> "thrown", status |-> v.status,
                                          text |-> e])]
    IN  IF RetryThrown(v.attempt)
        THEN [w EXCEPT !.pc = "sleep", !.sleeps = Append(@, Backoff(v.attempt)),
                       !.timer = now + Backoff(v.attempt)]
        ELSE [w EXCEPT !.pc = "done",
                       !.sent = Append(@, Response(502, 0, SessionFailedMsg, e, NoBody))]

\* fetch resolves with a response of the given status (line 88); the finally
\* of line 91 clears the timer
FetchResolve(i, status) ==
    /\ inv[i].pc = "fetch"
    /\ inv' = [inv EXCEPT ![i] = [@ EXCEPT !.status = status, !.timer = -1,
                  !.pc = IF RespOk(status) THEN "json" ELSE "text"]]
    /\ UNCHANGED <<env, allowedOrigins, rateLimitMap, now, history>>

\* fetch rejects with a transport error
FetchReject(i, e) ==
    /\ inv[i].pc = "fetch"
    /\ inv' = [inv EXCEPT ![i] = Caught(@, e)]
    /\ UNCHANGED <<env, allowedOrigins, rateLimitMap, now, history>>

\* the timer of line 86 fires: controller.abort() makes fetch reject
FetchTimeout(i) ==
    /\ inv[i].pc = "fetch"
    /\ inv[i].timer # -1
    /\ now >= inv[i].timer
    /\ inv' = [inv EXCEPT ![i] = Caught(@, AbortErrorMsg)]
    /\ UNCHANGED <<env, allowedOrigins, rateLimitMap, now, history>>

\* resp.text() resolves (lines 135-145)
TextResolve(i, text) ==
    /\ inv[i].pc = "text"
    /\ LET v == inv[i]
           w == [v EXCEPT !.lastErr = [message |-> "OpenAI session endpoint returned",
                                       detail |-> text],
                          !.ups = Append(@, [kind |-> "response", status |-> v.status,
                                             text |-> text])]
       IN  inv' = [inv EXCEPT ![i] =
              IF RetryStatus(v.status, v.attempt)
              THEN [w EXCEPT !.pc = "sleep", !.sleeps = Append(@, Backoff(v.attempt)),
                             !.timer = now + Backoff(v.attempt)]
              ELSE [w EXCEPT !.pc = "done",
                             !.sent = Append(@, Response(502, 0, SessionFailedMsg, text,
                                                         NoBody))]]
    /\ UNCHANGED <<env, allowedOrigins, rateLimitMap, now, history>>

\* resp.text() rejects: the body could not be read
TextReject(i, e) ==
    /\ inv[i].pc = "text"
    /\ inv' = [inv EXCEPT ![i] = Caught(@, e)]
    /\ UNCHANGED <<env, allowedOrigins, rateLimitMap, now, history>>

InstructionsBuiltIn == DefaultInstructions
\* process.env.SESSION_INSTRUCTIONS || <the built-in text> (lines 164-166)
Instructions == IF env.SESSION_INSTRUCTIONS # "" THEN env.SESSION_INSTRUCTIONS
                ELSE DefaultInstructions

\* resp.json() resolves with the parsed body d (line 148); the loop is left
\* and lines 164-169 run.  Setting a property on null, or (the file is an ES
\* module, hence strict) on a number, string or boolean, throws a TypeError,
\* which the catch of line 170 answers with err.message.  On an array the
\* assignment succeeds, but res.json serialises the elements only.
JsonResolve(i, d) ==
    /\ inv[i].pc = "json"
    /\ LET v == [inv[i] EXCEPT !.data = d, !.parsed = d,
                    !.ups = Append(@, [kind |-> "response", status |-> inv[i].status,
                                       text |-> ""])]
       IN  inv' = [inv EXCEPT ![i] =
              IF d.kind = "null"
              THEN [v EXCEPT !.pc = "done",
                             !.sent = Append(@, Response(500, 0, NullDataMsg, "", NoBody))]
              ELSE IF d.kind = "primitive"
              THEN [v EXCEPT !.pc = "done",
                             !.sent = Append(@, Response(500, 0, PrimitiveDataMsg, "",
                                                         NoBody))]
              ELSE IF d.kind = "array"
              THEN [v EXCEPT !.pc = "done",
                             !.sent = Append(@, Response(200, 0, "", "",
                                                [NoBody EXCEPT !.fields = d.fields]))]
              ELSE LET out == ("instructions" :> Instructions) @@ d.fields
                   IN  [v EXCEPT !.pc = "done",
                                 !.data = [kind |-> "object", fields |-> out],
                                 !.sent = Append(@, Response(200, 0, "", "",
                                                [NoBody EXCEPT !.fields = out]))]]
    /\ UNCHANGED <<env, allowedOrigins, rateLimitMap, now, history>>

\* resp.json() rejects: the body is not JSON or could not be read; the
\* await is inside the try of line 98, so the catch of line 150 takes it
JsonReject(i, e) ==
    /\ inv[i].pc = "json"
    /\ inv' = [inv EXCEPT ![i] = Caught(@, e)]
    /\ UNCHANGED <<env, allowedOrigins, rateLimitMap, now, history>>

\* the backoff timer fires (lines 141-142, 155-156): `continue` runs the
\* loop's attempt++ and the next fetchWithTimeout
SleepDone(i) ==
    /\ inv[i].pc = "sleep"
    /\ now >= inv[i].timer
    /\ inv' = [inv EXCEPT ![i] = IssueFetch([@ EXCEPT !.attempt = @ + 1])]
    /\ UNCHANGED <<env, allowedOrigins, rateLimitMap, now, history>>

\* the clock advances by d ms; a timer that is due fires before time moves on
Tick(d) ==
    /\ d > 0
    /\ \A i \in Inv : inv[i].timer = -1 \/ now + d <= inv[i].timer
    /\ now' = now + d
    /\ UNCHANGED <<env, allowedOrigins, rateLimitMap, inv, history>>

\* the waits until the pending timers are due
TimerGaps == {inv[i].timer - now : i \in {j \in Inv : inv[j].timer # -1}}

(***************************************************************************)
(* Inputs: header values and environment settings the checks draw from.    *)
(***************************************************************************)
KeyA == <<"2","0","3",".","0",".","1","1","3",".","7">>  \* 203.0.113.7 (an x-forwarded-for value)
KeyB == <<"1","0",".","0",".","0",".","9">>  \* 10.0.0.9 (a socket address)
ApiKey == <<"s","k","-","1">>  \* sk-1
OriginLocalhost == <<"h","t","t","p",":","/","/","l","o","c","a","l","h","o","s","t",":","3","0","0","0">>  \* http://localhost:3000 (an entry of DEFAULT_ALLOWED)
OriginEvil == <<"h","t","t","p","s",":","/","/","e","v","i","l",".","i","o">>  \* https://evil.io
AllowTwo == <<"h","t","t","p","s",":","/","/","A",".","i","o","/"," ",","," ","h","t","t","p",":","/","/","b",".","i","o">>  \* https://A.io/ , http://b.io (ALLOWED_ORIGINS with two entries)
AllowNone == <<",">>  \* , (ALLOWED_ORIGINS that leaves no entry)
AllowSlash == <<"h","t","t","p","s",":","/","/","a",".","i","o",",","/">>  \* https://a.io,/ (ALLOWED_ORIGINS with an entry that normalises to "")
OriginA == <<"h","t","t","p","s",":","/","/","a",".","i","o">>  \* https://a.io
OriginAUpperPath == <<"H","T","T","P","S",":","/","/","A",".","I","O","/","x","?","y">>  \* HTTPS://A.IO/x?y
OriginAPort == <<"h","t","t","p","s",":","/","/","a",".","i","o",":","4","4","3">>  \* https://a.io:443
OriginASuffix == <<"h","t","t","p","s",":","/","/","a",".","i","o",".","e","v","i","l",".","i","o">>  \* https://a.io.evil.io
OriginFtpB == <<"f","t","p",":","/","/","b",".","i","o">>  \* ftp://b.io
OriginApp == <<"a","p","p",":","/","/","b",".","i","o">>  \* app://b.io
OriginBareB == <<"b",".","i","o">>  \* b.io
OriginBareEvil == <<"e","v","i","l",".","i","o">>  \* evil.io
OriginSep == <<":","/","/">>  \* ://
OriginSlash == <<"/">>  \* /
RefererB == <<"h","t","t","p",":","/","/","b",".","i","o","/","p","a","g","e">>  \* http://b.io/page
RefererEvil == <<"h","t","t","p","s",":","/","/","e","v","i","l",".","i","o","/","?","u","=","b",".","i","o">>  \* https://evil.io/?u=b.io


Req(o, ref, x, rem) == [origin |-> o, referer |-> ref, xff |-> x, remote |-> rem]
Env(key, allowed, instr) ==
    [OPENAI_API_KEY |-> key, ALLOWED_ORIGINS |-> allowed, SESSION_INSTRUCTIONS |-> instr]

\* upstream behaviour: statuses, body texts, thrown errors, parsed bodies
Statuses == {200, 404, 503}
Texts == {"not found", "unavailable"}
FetchErrors == {"TypeError: fetch failed"}
BodyErrors == {"TypeError: terminated"}
JsonErrors == {"SyntaxError: Unexpected end of JSON input"}
JsonBodies ==
    {[kind |-> "object", fields |-> [id |-> "sess_1"]],
     [kind |-> "object", fields |-> [id |-> "sess_2", instructions |-> "upstream"]],
     [kind |-> "null", fields |-> <<>>],
     [kind |-> "primitive", fields |-> <<>>],
     [kind |-> "array", fields |-> <<>>]}

InitWith(envs) ==
    /\ env \in envs
    /\ allowedOrigins = ParseAllowed(env.ALLOWED_ORIGINS)
    /\ rateLimitMap = <<>>
    /\ now = 0
    /\ inv = [i \in Inv |-> IdleInv]
    /\ history = <<>>

(***************************************************************************)
(* Spec: NumInv invocations in progress at once, every outcome of the      *)
(* admission steps, upstream responses of every status class and the       *)
(* timeout.  (SpecUp adds the transport and body errors.)                  *)
(***************************************************************************)
Envs == {Env(k, a, "") : k \in {<<>>, ApiKey}, a \in {<<>>, AllowNone}}
Requests ==
    {Req(OriginLocalhost, <<>>, KeyA, KeyB),
     Req(OriginEvil, <<>>, KeyA, <<>>),
     Req(<<>>, <<>>, <<>>, KeyB),
     Req(<<>>, <<>>, <<>>, <<>>),
     Req(OriginLocalhost, <<>>, <<>>, <<>>)}

Init == InitWith(Envs)

Next ==
    \/ \E i \in Inv, r \in Requests : inv[i].pc = "idle" /\ Handler(i, r)
    \/ \E i \in Inv, st \in Statuses : FetchResolve(i, st)
    \/ \E i \in Inv : FetchTimeout(i)
    \/ \E i \in Inv : TextResolve(i, "unavailable")
    \/ \E i \in Inv : JsonResolve(i, [kind |-> "object", fields |-> [id |-> "sess_1"]])
    \/ \E i \in Inv : SleepDone(i)
    \/ \E d \in TimerGaps : now + d <= MaxNowConc /\ Tick(d)

Spec == Init /\ [][Next]_vars

(***************************************************************************)
(* SpecUp: one invocation at a time, every upstream behaviour.             *)
(***************************************************************************)
EnvsUp == {Env(ApiKey, <<>>, s) : s \in {"", "custom"}}
RequestsUp == {Req(OriginLocalhost, <<>>, KeyA, KeyB), Req(<<>>, <<>>, <<>>, <<>>)}

InitUp == InitWith(EnvsUp)

NextUp ==
    \/ \E r \in RequestsUp : TotalAdmitted < MaxAdmittedUp /\ Handler(1, r)
    \/ \E st \in Statuses : FetchResolve(1, st)
    \/ \E e \in FetchErrors : FetchReject(1, e)
    \/ FetchTimeout(1)
    \/ \E t \in Texts : TextResolve(1, t)
    \/ \E e \in BodyErrors : TextReject(1, e)
    \/ \E d \in JsonBodies : JsonResolve(1, d)
    \/ \E e \in JsonErrors \cup BodyErrors : JsonReject(1, e)
    \/ SleepDone(1)
    \/ \E d \in TimerGaps : now + d <= MaxNow /\ Tick(d)

SpecUp == InitUp /\ [][NextUp]_vars

(***************************************************************************)
(* SpecRL: the rate limiter over two windows; the upstream answers 404.    *)
(***************************************************************************)
EnvsRL == {Env(ApiKey, <<>>, "")}
RequestsRL == {Req(<<>>, <<>>, KeyA, KeyB), Req(<<>>, <<>>, <<>>, KeyB)}
\* half a window and one millisecond more: the clock reaches an age of exactly
\* one window and of one window and 1 ms
TickStepsRL == {RATE_LIMIT_WINDOW_MS \div 2, RATE_LIMIT_WINDOW_MS \div 2 + 1}

InitRL == InitWith(EnvsRL)

NextRL ==
    \/ \E r \in RequestsRL : TotalAdmitted < MaxAdmittedRL /\ Handler(1, r)
    \/ FetchResolve(1, 404)
    \/ TextResolve(1, "not found")
    \/ \E d \in TickStepsRL : now + d <= MaxNow /\ Tick(d)

SpecRL == InitRL /\ [][NextRL]_vars

(***************************************************************************)
(* SpecGuard: the origin guard over allow-lists and origins, one request   *)
(* after another.                                                          *)
(***************************************************************************)
EnvsGuard == {Env(ApiKey, a, "") : a \in {<<>>, AllowTwo, AllowNone, AllowSlash}}
OriginsGuard ==
    {<<>>, OriginLocalhost, OriginEvil, OriginA, OriginAUpperPath, OriginAPort,
     OriginASuffix, OriginFtpB, OriginApp, OriginBareB, OriginBareEvil, OriginSep,
     OriginSlash}
RequestsGuard ==
    {Req(o, <<>>, KeyA, KeyB) : o \in OriginsGuard}
    \cup {Req(<<>>, ref, KeyA, KeyB) : ref \in {RefererB, RefererEvil}}
    \cup {Req(OriginEvil, RefererB, KeyA, KeyB), Req(<<>>, <<>>, <<>>, <<>>)}

InitGuard == InitWith(EnvsGuard)

NextGuard ==
    \/ \E r \in RequestsGuard : TotalAdmitted < MaxAdmittedGuard /\ Handler(1, r)
    \/ FetchResolve(1, 404)
    \/ TextResolve(1, "not found")

SpecGuard == InitGuard /\ [][NextGuard]_vars

(***************************************************************************)
(* SpecNoCred: no credential is configured; requests follow one another    *)
(* until one key has filled its window.                                    *)
(***************************************************************************)
EnvsNoCred == {Env(<<>>, a, "") : a \in {<<>>, AllowNone}}

InitNoCred == InitWith(EnvsNoCred)

NextNoCred ==
    \E r \in Requests : TotalAdmitted < MaxAdmittedNoCred /\ Handler(1, r)

SpecNoCred == InitNoCred /\ [][NextNoCred]_vars

(***************************************************************************)
(* SpecConc: NumInv invocations in progress at once, each slot serving one *)
(* request after another, all of one key; the upstream answers 404 and an  *)
(* invocation stays suspended while the body is read.  The clock moves by  *)
(* one window or by one window and 1 ms.                                   *)
(***************************************************************************)
RequestsConc == {Req(<<>>, <<>>, KeyA, KeyB)}
TickStepsConc == {RATE_LIMIT_WINDOW_MS, RATE_LIMIT_WINDOW_MS + 1}

InitConc == InitWith(EnvsRL)

NextConc ==
    \/ \E i \in Inv, r \in RequestsConc :
          TotalAdmitted < MaxAdmittedConc /\ Handler(i, r)
    \/ \E i \in Inv : FetchResolve(i, 404)
    \/ \E i \in Inv : TextResolve(i, "not found")
    \/ \E d \in TickStepsConc : now + d <= MaxNow /\ Tick(d)

SpecConc == InitConc /\ [][NextConc]_vars

(***************************************************************************)
(* SpecAdmit: with and without credential, requests from allowed and       *)
(* refused origins follow one another until a key has filled its window;   *)
(* the upstream answers 404.                                               *)
(***************************************************************************)
InitAdmit == InitWith(Envs)

NextAdmit ==
    \/ \E r \in Requests : TotalAdmitted < MaxAdmittedAdmit /\ Handler(1, r)
    \/ FetchResolve(1, 404)
    \/ TextResolve(1, "not found")

SpecAdmit == InitAdmit /\ [][NextAdmit]_vars

(***************************************************************************)
(* SpecLive: one invocation with a credential, every upstream behaviour;   *)
(* a timer that is due fires, and the clock moves on to the next timer.    *)
(* The upstream owes nothing: it may stay silent before its response and   *)
(* in the middle of a body.                                                *)
(***************************************************************************)
InitLive == InitWith({Env(ApiKey, <<>>, "")})

Timers ==
    \/ FetchTimeout(1)
    \/ SleepDone(1)
    \/ \E d \in TimerGaps : Tick(d)

NextLive ==
    \/ \E r \in RequestsRL : TotalAdmitted < MaxAdmittedLive /\ Handler(1, r)
    \/ \E st \in Statuses : FetchResolve(1, st)
    \/ \E e \in FetchErrors : FetchReject(1, e)
    \/ \E t \in Texts : TextResolve(1, t)
    \/ \E e \in BodyErrors : TextReject(1, e)
    \/ \E d \in JsonBodies : JsonResolve(1, d)
    \/ \E e \in JsonErrors : JsonReject(1, e)
    \/ Timers

SpecLive == InitLive /\ [][NextLive]_vars /\ WF_vars(Timers)

(***************************************************************************)
(* Helpers of the properties.                                              *)
(***************************************************************************)
Started(i) == inv[i].pc # "idle"
Ran(i, stage) == \E k \in 1..Len(inv[i].stages) : inv[i].stages[k] = stage
\* the invocation has sent exactly one response, of the given status
Answered(i, s) == Len(inv[i].sent) = 1 /\ inv[i].sent[1].status = s
NoCredential == env.OPENAI_API_KEY = <<>>

C4_OneResponse ==
    \A i \in Inv :
        /\ Len(inv[i].sent) <= 1
        /\ inv[i].pc \in {"done", "crashed"} => Len(inv[i].sent) = 1

(***************************************************************************)
(* C5 as stated: the client key is the first present of x-forwarded-for,   *)
(* the socket address, the origin string and "unknown", and a request with *)
(* neither of the first two is keyed by the third or fourth and then       *)
(* rate-limited.                                                           *)
(***************************************************************************)
Unknown == <<"u","n","k","n","o","w","n">>
C5_ClaimedKey(r) ==
    IF r.xff # <<>> THEN r.xff
    ELSE IF r.remote # <<>> THEN r.remote
    ELSE IF RawOrigin(r) # <<>> THEN RawOrigin(r)
    ELSE Unknown
C5_KeyChain ==
    \A i \in Inv : Ran(i, "key") =>
        /\ inv[i].ip = C5_ClaimedKey(inv[i].req)
        /\ Ran(i, "ratelimit")

(***************************************************************************)
(* The rate limiter's decisions against the full record of admissions.     *)
(***************************************************************************)
Decided(i) == Ran(i, "ratelimit")
\* the admissions of the invocation's key that preceded its own decision
Prior(i) == SubSeq(MapGet(history, inv[i].ip), 1, inv[i].rl.before)
\* how many of them were made no more than `age` ms before the decision
Within(i, age) ==
    Cardinality({k \in 1..Len(Prior(i)) : inv[i].rl.at - Prior(i)[k] <= age})

(***************************************************************************)
(* C2: for every key, a request that finds fewer than 8 admissions of its  *)
(* key inside the 60 000 ms window ending at its arrival passes the rate   *)
(* limiter, and one that finds 8 is rejected with 429 and Retry-After: 60. *)
(* So the first 8 requests of a window pass and the 9th is rejected.       *)
(***************************************************************************)
C2_EightThenReject ==
    \A i \in Inv : Decided(i) =>
        IF Within(i, 60000) < 8
        THEN /\ inv[i].rl.admitted
             /\ \A k \in 1..Len(inv[i].sent) : inv[i].sent[k].status # 429
        ELSE /\ Within(i, 60000) = 8
             /\ ~inv[i].rl.admitted
             /\ Answered(i, 429)
             /\ inv[i].sent[1].retryAfter = 60

\* a 9th request of a key was rejected at the far end of the window that its
\* 8 admitted requests opened
C2_Witness ==
    \E i \in Inv :
        /\ Answered(i, 429)
        /\ Len(Prior(i)) = 8
        /\ inv[i].rl.at = Prior(i)[1] + 60000

(***************************************************************************)
(* C3 as stated: a key that has reached the cap is admitted again by a     *)
(* request that arrives at least 60 000 ms after every recorded request of *)
(* the key.                                                                *)
(***************************************************************************)
C3_Original ==
    \A i \in Inv : Decided(i) /\ Len(Prior(i)) >= 8 =>
        ((\A k \in 1..Len(Prior(i)) : inv[i].rl.at - Prior(i)[k] >= 60000)
            => inv[i].rl.admitted)

(***************************************************************************)
(* C3 as amended: a key that has reached the cap is admitted again by a    *)
(* request that arrives more than 60 000 ms (60 001 ms or later) after     *)
(* every recorded request of the key, and in the window that then opens    *)
(* it is admitted up to 8 times: admissions older than 60 000 ms do not    *)
(* count.  A request arriving exactly 60 000 ms after 8 admissions is      *)
(* still rejected.                                                         *)
(***************************************************************************)
C3_Amended ==
    \A i \in Inv : Decided(i) /\ Len(Prior(i)) >= 8 =>
        /\ (\A k \in 1..Len(Prior(i)) : inv[i].rl.at - Prior(i)[k] > 60000)
              => inv[i].rl.admitted
        /\ Within(i, 60000) < 8 => inv[i].rl.admitted
        /\ Within(i, 60000) >= 8 => ~inv[i].rl.admitted

\* the key filled one window, and 60 001 ms later filled a second one
C3_Witness ==
    \E i \in Inv :
        /\ inv[i].rl.admitted
        /\ inv[i].rl.before = 15
        /\ Prior(i)[8] + 60001 = Prior(i)[9]
        /\ Prior(i)[9] = inv[i].rl.at

(***************************************************************************)
(* How the upstream attempts of an invocation ended (ups): a "response" is *)
(* a status whose body was read in full, "thrown" a rejected or aborted    *)
(* fetch or a body that could not be read or parsed.                       *)
(***************************************************************************)
GotStatus(i, k, s) == inv[i].ups[k].kind = "response" /\ inv[i].ups[k].status = s
\* attempt k ended in a retryable failure: a 5xx response or a thrown error
FailedRetryable(i, k) ==
    \/ inv[i].ups[k].kind = "thrown"
    \/ inv[i].ups[k].kind = "response" /\ inv[i].ups[k].status >= 500

(***************************************************************************)
(* C6: when the upstream answers 503 to the first two attempts and 200     *)
(* (with a JSON object as body) to the third, the invocation has made      *)
(* exactly 3 upstream calls, has slept 500 ms and then 1000 ms (1500 ms in *)
(* all, which have passed on the clock) and answers 200.                   *)
(***************************************************************************)
C6_TwoRetriesThenSuccess ==
    \A i \in Inv :
        (/\ Len(inv[i].ups) = 3
         /\ GotStatus(i, 1, 503)
         /\ GotStatus(i, 2, 503)
         /\ GotStatus(i, 3, 200)
         /\ inv[i].data.kind = "object")
        => /\ inv[i].calls = 3
           /\ inv[i].sleeps = <<500, 1000>>
           /\ now - inv[i].rl.at >= 1500
           /\ inv[i].pc = "done"
           /\ Answered(i, 200)

C6_Witness ==
    \E i \in Inv :
        /\ Len(inv[i].ups) = 3
        /\ GotStatus(i, 1, 503)
        /\ GotStatus(i, 2, 503)
        /\ GotStatus(i, 3, 200)
        /\ Answered(i, 200)

(***************************************************************************)
(* C7: an upstream response with a 4xx status ends the invocation at once, *)
(* on whichever attempt it comes: it is the last attempt, no call and no   *)
(* backoff sleep follows it, and the answer is 502 with the body of that   *)
(* response as detail.                                                     *)
(***************************************************************************)
C7_ClientErrorNotRetried ==
    \A i \in Inv : \A k \in 1..Len(inv[i].ups) :
        (inv[i].ups[k].kind = "response"
         /\ inv[i].ups[k].status >= 400 /\ inv[i].ups[k].status <= 499)
        => /\ k = Len(inv[i].ups)
           /\ inv[i].calls = k
           /\ Len(inv[i].sleeps) = k - 1
           /\ inv[i].pc = "done"
           /\ Answered(i, 502)
           /\ inv[i].sent[1].detail = inv[i].ups[k].text

\* a 404 on the second attempt, after a retried failure, was answered 502
C7_Witness ==
    \E i \in Inv :
        /\ Len(inv[i].ups) = 2
        /\ GotStatus(i, 2, 404)
        /\ Answered(i, 502)
        /\ inv[i].calls = 2

(***************************************************************************)
(* C8: an invocation never makes more than 3 upstream calls, and when all  *)
(* 3 attempts ended in a retryable failure it answers 502 with the detail  *)
(* of the third failure: that response's body text, or the string of that  *)
(* exception.                                                              *)
(***************************************************************************)
C8_ThreeAttemptsLastDetail ==
    \A i \in Inv :
        /\ inv[i].calls <= 3
        /\ Len(inv[i].ups) <= 3
        /\ (Len(inv[i].ups) = 3 /\ \A k \in 1..3 : FailedRetryable(i, k))
           => /\ inv[i].pc = "done"
              /\ inv[i].calls = 3
              /\ Answered(i, 502)
              /\ inv[i].sent[1].detail = inv[i].ups[3].text

\* three failures of different kinds, the last one's detail differing from
\* the first one's
C8_Witness ==
    \E i \in Inv :
        /\ Len(inv[i].ups) = 3
        /\ \A k \in 1..3 : FailedRetryable(i, k)
        /\ inv[i].ups[1].kind = "thrown"
        /\ inv[i].ups[2].kind = "response"
        /\ inv[i].ups[3].text # inv[i].ups[2].text
        /\ Answered(i, 502)

(***************************************************************************)
(* The origin guard's inputs as the guard sees them.                       *)
(***************************************************************************)
NormalizedOriginOf(i) == Normalize(OriginToCheck(RawOrigin(inv[i].req)))
AllowedEntries == NormalizedAllowed(allowedOrigins)
Guarded(i) == Started(i) /\ RawOrigin(inv[i].req) # <<>> /\ Len(allowedOrigins) > 0
\* the origin has no relationship with any entry of the allow-list
Unrelated(i) ==
    \A k \in 1..Len(AllowedEntries) :
        /\ NormalizedOriginOf(i) # AllowedEntries[k]
        /\ ~StartsWith(NormalizedOriginOf(i), AllowedEntries[k])
        /\ ~Includes(NormalizedOriginOf(i), StripProtocol(AllowedEntries[k]))

(***************************************************************************)
(* C9 as stated: a request with an origin and a non-empty allow-list is    *)
(* admitted by the guard when its normalized origin equals a normalized    *)
(* entry, and is answered 403 when the origin neither equals nor starts    *)
(* with an entry nor contains an entry's host.                             *)
(***************************************************************************)
C9_Original ==
    \A i \in Inv : Guarded(i) =>
        /\ (\E k \in 1..Len(AllowedEntries) : NormalizedOriginOf(i) = AllowedEntries[k])
              => ~Answered(i, 403) /\ Ran(i, "key")
        /\ Unrelated(i) => Answered(i, 403)

(***************************************************************************)
(* C9 as amended: the guard admits the request when its normalized origin  *)
(* equals a non-empty normalized entry (an entry that normalizes to the    *)
(* empty string, such as "/", matches nothing), and answers 403 when the   *)
(* origin neither equals nor starts with an entry nor contains an entry's  *)
(* host.                                                                   *)
(***************************************************************************)
C9_Amended ==
    \A i \in Inv : Guarded(i) =>
        /\ (\E k \in 1..Len(AllowedEntries) :
                AllowedEntries[k] # <<>> /\ NormalizedOriginOf(i) = AllowedEntries[k])
              => ~Answered(i, 403) /\ Ran(i, "key")
        /\ Unrelated(i) => Answered(i, 403) /\ ~Ran(i, "key")

\* a request whose origin, a URL in upper case with a path, was reduced to
\* an entry of the allow-list was admitted and rate-limited
C9_Witness ==
    /\ env.ALLOWED_ORIGINS = AllowTwo
    /\ \E i \in Inv :
          /\ inv[i].req.origin = OriginAUpperPath
          /\ AllowedEntries[1] # <<>>
          /\ NormalizedOriginOf(i) = AllowedEntries[1]
          /\ Ran(i, "ratelimit")

(***************************************************************************)
(* C10: a request with neither an Origin nor a Referer header, or any      *)
(* request when the allow-list is empty, is never answered 403: the        *)
(* guard's block does not run and control reaches the rate limiter's       *)
(* first statement (line 58).                                              *)
(***************************************************************************)
C10_FailOpen ==
    \A i \in Inv :
        (Started(i) /\ (RawOrigin(inv[i].req) = <<>> \/ Len(allowedOrigins) = 0))
        => /\ \A k \in 1..Len(inv[i].sent) : inv[i].sent[k].status # 403
           /\ ~Ran(i, "origin")
           /\ Ran(i, "key")

\* with an empty allow-list, a request whose origin the default list would
\* refuse was rate-limited and sent upstream
C10_Witness ==
    /\ Len(allowedOrigins) = 0
    /\ \E i \in Inv :
          /\ inv[i].req.origin = OriginEvil
          /\ inv[i].rl.admitted
          /\ inv[i].calls = 1


(***************************************************************************)
(* An upstream attempt of invocation i succeeded with a JSON object: the   *)
(* last attempt ended with a 2xx response whose body parsed to an object.  *)
(***************************************************************************)
SucceededWithObject(i) ==
    /\ Len(inv[i].ups) > 0
    /\ inv[i].ups[Len(inv[i].ups)].kind = "response"
    /\ RespOk(inv[i].ups[Len(inv[i].ups)].status)
    /\ inv[i].parsed.kind = "object"

(***************************************************************************)
(* C11: after an upstream attempt that succeeded with a JSON object the    *)
(* invocation has answered 200, and the body has the fields of the         *)
(* upstream object plus `instructions`; `instructions` is the              *)
(* SESSION_INSTRUCTIONS setting when one is set (non-empty), else the      *)
(* built-in text, also when the upstream object had such a field; every    *)
(* other field has the upstream's value.                                   *)
(***************************************************************************)
C11_RelayWithInstructions ==
    \A i \in Inv :
        SucceededWithObject(i)
        => /\ Answered(i, 200)
           /\ LET up == inv[i].parsed.fields
                  body == inv[i].sent[1].body.fields
              IN  /\ DOMAIN body = DOMAIN up \cup {"instructions"}
                  /\ body["instructions"] =
                        (IF env.SESSION_INSTRUCTIONS # "" THEN env.SESSION_INSTRUCTIONS
                         ELSE DefaultInstructions)
                  /\ \A f \in DOMAIN up \ {"instructions"} : body[f] = up[f]

\* with an override configured, a success on the second attempt relayed an
\* upstream object whose own `instructions` field was overwritten
C11_Witness ==
    \E i \in Inv :
        /\ SucceededWithObject(i)
        /\ env.SESSION_INSTRUCTIONS = "custom"
        /\ Len(inv[i].ups) = 2
        /\ "instructions" \in DOMAIN inv[i].parsed.fields
        /\ inv[i].parsed.fields["instructions"] # "custom"
        /\ inv[i].sent[1].body.fields["instructions"] = "custom"
        /\ inv[i].sent[1].body.fields["id"] = "sess_2"


(***************************************************************************)
(* A local exception was raised while invocation i was processed: line 58  *)
(* threw, the body of a 2xx response could not be parsed or read (attempt  *)
(* k was "thrown" after a 2xx status), or the parsed value could not take  *)
(* the `instructions` property.                                            *)
(***************************************************************************)
LocalException(i) ==
    \/ inv[i].pc = "crashed"
    \/ \E k \in 1..Len(inv[i].ups) :
          inv[i].ups[k].kind = "thrown" /\ RespOk(inv[i].ups[k].status)
    \/ inv[i].parsed.kind \in {"null", "primitive"}
\* the last upstream attempt failed: a non-2xx response, a rejected or
\* aborted fetch, or an error body that could not be read
UpstreamFailure(i) ==
    /\ Len(inv[i].ups) > 0
    /\ ~RespOk(inv[i].ups[Len(inv[i].ups)].status)

(***************************************************************************)
(* C12: every response has status 200, 403, 429, 500 or 502; an invocation *)
(* in which a local exception was raised has answered 500 with the error's *)
(* text; and an invocation that answered 502 did so after an upstream      *)
(* failure.                                                                *)
(***************************************************************************)
C12_LocalExceptionIs500 ==
    \A i \in Inv :
        /\ \A k \in 1..Len(inv[i].sent) :
              inv[i].sent[k].status \in {200, 403, 429, 500, 502}
        /\ LocalException(i)
              => Answered(i, 500) /\ inv[i].sent[1].error # ""
        /\ Answered(i, 502) => UpstreamFailure(i)


\* the invocation is suspended at an await of the upstream phase
Suspended(i) == inv[i].pc \in {"fetch", "text", "json", "sleep"}

(***************************************************************************)
(* C13: whatever the interleaving of the invocations, the sequence stored  *)
(* for a key never has more than 8 timestamps, and of the admissions of a  *)
(* key any 9 consecutive ones span more than 60 000 ms, so that no more    *)
(* than 8 lie within one window.                                           *)
(***************************************************************************)
C13_AtMostEightPerWindow ==
    /\ \A k \in DOMAIN rateLimitMap : Len(rateLimitMap[k]) <= RATE_LIMIT_MAX
    /\ \A k \in DOMAIN history :
          \A a \in 1..Len(history[k]) :
              a + RATE_LIMIT_MAX <= Len(history[k])
              => history[k][a + RATE_LIMIT_MAX] - history[k][a] > RATE_LIMIT_WINDOW_MS

\* while one admitted invocation was still suspended, the window of its key
\* was full and a later request of that key was answered 429
C13_Witness ==
    \E i \in Inv, j \in Inv :
        /\ i # j
        /\ Suspended(i)
        /\ inv[i].rl.admitted
        /\ Answered(j, 429)
        /\ inv[j].ip = inv[i].ip
        /\ inv[j].rl.at >= inv[i].rl.at
        /\ Len(rateLimitMap[inv[i].ip]) = RATE_LIMIT_MAX


(***************************************************************************)
(* C14: the step in which an invocation is answered 429 leaves the map of  *)
(* the rate limiter as it was, for every key: nothing is appended for the  *)
(* rejected request.                                                       *)
(***************************************************************************)
C14_RejectionLeavesLedger ==
    [][\A i \in Inv :
          (inv'[i] # inv[i] /\ Len(inv'[i].sent) = 1 /\ inv'[i].sent[1].status = 429)
          => rateLimitMap' = rateLimitMap]_vars

\* a request was rejected some time after the 8th admission of its key, and
\* the key's sequence holds these 8 admissions and nothing else
C14_Witness ==
    \E i \in Inv :
        /\ Answered(i, 429)
        /\ rateLimitMap[inv[i].ip] = Prior(i)
        /\ Len(Prior(i)) = RATE_LIMIT_MAX
        /\ inv[i].rl.at > Prior(i)[RATE_LIMIT_MAX]

(***************************************************************************)
(* The order in which the steps of invocation i ran: position of a stage   *)
(* in its record, 0 when it did not run.                                   *)
(***************************************************************************)
StageAt(i, stage) ==
    IF Ran(i, stage) THEN CHOOSE k \in 1..Len(inv[i].stages) :
                              /\ inv[i].stages[k] = stage
                              /\ \A j \in 1..(k - 1) : inv[i].stages[j] # stage
    ELSE 0

(***************************************************************************)
(* C15: an invocation that has issued an upstream call was not refused by  *)
(* the origin guard, was admitted by the rate limiter and found the        *)
(* credential, and these steps ran in this order before the call; an       *)
(* invocation answered 403, 429 or the missing-credential 500 has issued   *)
(* no upstream call.                                                       *)
(***************************************************************************)
C15_CallAfterAdmission ==
    \A i \in Inv :
        /\ inv[i].calls > 0
           => /\ ~(GuardApplies(inv[i].req, allowedOrigins)
                   /\ ~OriginOk(inv[i].req, allowedOrigins))
              /\ GuardApplies(inv[i].req, allowedOrigins)
                    => 0 < StageAt(i, "origin")
                       /\ StageAt(i, "origin") < StageAt(i, "ratelimit")
              /\ inv[i].rl.admitted
              /\ env.OPENAI_API_KEY # <<>>
              /\ 0 < StageAt(i, "ratelimit")
              /\ StageAt(i, "ratelimit") < StageAt(i, "credential")
              /\ StageAt(i, "credential") < StageAt(i, "fetch")
        /\ (\/ Answered(i, 403)
            \/ Answered(i, 429)
            \/ Answered(i, 500) /\ inv[i].sent[1].error = MissingKeyMsg)
           => inv[i].calls = 0

\* the 8th request of a key, from an allowed origin, passed the guard and the
\* limiter and was sent upstream
C15_Witness ==
    \E i \in Inv :
        /\ inv[i].calls = 1
        /\ Ran(i, "origin")
        /\ inv[i].rl.before = RATE_LIMIT_MAX - 1

(***************************************************************************)
(* C16: the step in which an invocation is answered 403 leaves the map of  *)
(* the rate limiter as it was, for every key.                              *)
(***************************************************************************)
C16_RefusalLeavesLedger ==
    [][\A i \in Inv :
          (inv'[i] # inv[i] /\ Len(inv'[i].sent) = 1 /\ inv'[i].sent[1].status = 403)
          => rateLimitMap' = rateLimitMap]_vars

\* a request was refused whose key had been admitted before: the key's
\* sequence holds the admissions only
C16_Witness ==
    \E i \in Inv :
        /\ Answered(i, 403)
        /\ ~ClientKey(inv[i].req).thrown
        /\ ClientKey(inv[i].req).key \in DOMAIN rateLimitMap
        /\ rateLimitMap = history

(***************************************************************************)
(* C17: the j-th backoff sleep of an invocation lasts 500 * 2^(j-1) ms and *)
(* follows its j-th attempt, which failed in a retryable way (a 5xx        *)
(* response or a thrown error) and was the first or the second; a sleep    *)
(* ends only in the next attempt, not before its delay has passed; and no  *)
(* sleep follows the last attempt, a 4xx response or a success.            *)
(***************************************************************************)
C17_SleepBetweenAttempts ==
    /\ [](\A i \in Inv :
            LET n == Len(inv[i].sleeps)
                u == Len(inv[i].ups)
            IN  /\ \A j \in 1..n :
                      /\ inv[i].sleeps[j] = 500 * Pow2(j - 1)
                      /\ j <= MAX_SESSION_RETRIES
                      /\ j <= u
                      /\ FailedRetryable(i, j)
                /\ inv[i].pc = "sleep" => n = u /\ inv[i].calls = u
                /\ inv[i].pc \in {"fetch", "text", "json"} => n = inv[i].calls - 1
                /\ (inv[i].pc = "done" /\ u > 0) => n = u - 1
                /\ \A k \in 1..u : ~FailedRetryable(i, k) => (n < k /\ k = u))
    /\ [][\A i \in Inv :
            /\ (inv[i].pc # "sleep" /\ inv'[i].pc = "sleep")
               => inv'[i].timer = now + 500 * Pow2(inv[i].attempt)
            /\ (inv[i].pc = "sleep" /\ inv'[i] # inv[i])
               => /\ inv'[i].pc = "fetch"
                  /\ inv'[i].attempt = inv[i].attempt + 1
                  /\ inv'[i].calls = inv[i].calls + 1
                  /\ now >= inv[i].timer]_vars

\* a timeout, a sleep of 500 ms, a 503, a sleep of 1000 ms, then a 404 that
\* was answered at once
C17_Witness ==
    \E i \in Inv :
        /\ inv[i].pc = "done"
        /\ inv[i].sleeps = <<500, 1000>>
        /\ Len(inv[i].ups) = 3
        /\ inv[i].ups[1].text = AbortErrorMsg
        /\ GotStatus(i, 2, 503)
        /\ GotStatus(i, 3, 404)
        /\ now = inv[i].rl.at + FETCH_TIMEOUT_MS + 500 + 1000

(***************************************************************************)
(* C18: while a fetch is awaited its timer is the one armed at its own     *)
(* issue, due 15 000 ms later, and the clock does not pass it: the call is *)
(* aborted then, which counts as a retryable failure (a sleep and another  *)
(* attempt, or 502 after the third).  No timer of a fetch is pending once  *)
(* the fetch has ended, and an invocation has one call in flight or none.  *)
(***************************************************************************)
C18_TimeoutPerAttempt ==
    \A i \in Inv :
        LET u == Len(inv[i].ups) IN
        /\ inv[i].pc = "fetch"
           => inv[i].timer = inv[i].issued + 15000 /\ now <= inv[i].timer
        /\ inv[i].pc \in {"idle", "text", "json", "done", "crashed"}
           => inv[i].timer = -1
        /\ inv[i].calls = u + (IF inv[i].pc \in {"fetch", "text", "json"} THEN 1 ELSE 0)
        /\ \A k \in 1..u :
              (inv[i].ups[k].kind = "thrown" /\ inv[i].ups[k].text = AbortErrorMsg)
              => /\ k <= MAX_SESSION_RETRIES => Len(inv[i].sleeps) >= k
                 /\ k > MAX_SESSION_RETRIES => Answered(i, 502)
        /\ (inv[i].pc = "sleep" /\ inv[i].ups[u].text = AbortErrorMsg)
           => inv[i].timer = inv[i].issued + 15000 + inv[i].sleeps[u]

\* the first call was aborted after 15 000 ms; the second, issued 500 ms
\* later, was answered at the very end of its own 15 000 ms
C18_Witness ==
    \E i \in Inv :
        /\ Answered(i, 200)
        /\ Len(inv[i].ups) = 2
        /\ inv[i].ups[1].text = AbortErrorMsg
        /\ inv[i].issued = inv[i].rl.at + 15000 + 500
        /\ now = inv[i].issued + 15000

(***************************************************************************)
(* C19: an invocation that has started eventually sends a response, when   *)
(* timers that are due fire and the clock moves on.                        *)
(***************************************************************************)
C19_EventuallyResponds ==
    \A i \in Inv : Started(i) ~> (Len(inv[i].sent) = 1)

(***************************************************************************)
(* C20: the step in which the rate limiter admits a request stores, for    *)
(* its key, the timestamps still in the window followed by the time of the *)
(* request, once, and leaves the other keys alone; no step of the upstream *)
(* phase, whether it starts another attempt or ends the invocation with    *)
(* 200, 500 or 502, changes the map.                                       *)
(***************************************************************************)
C20_OneTimestampPerAdmission ==
    [][\A i \in Inv :
          inv'[i] # inv[i]
          => IF Suspended(i) THEN rateLimitMap' = rateLimitMap
             ELSE inv'[i].rl.admitted
                  => LET key == inv'[i].ip
                         kept == Pruned(MapGet(rateLimitMap, key), now)
                     IN  /\ MapGet(rateLimitMap', key) = Append(kept, now)
                         /\ \A k \in DOMAIN rateLimitMap \ {key} :
                               MapGet(rateLimitMap', k) = rateLimitMap[k]]_vars

\* the second admitted request of a key ended with 502 after three attempts:
\* the key's sequence has its two timestamps
C20_Witness ==
    \E i \in Inv :
        /\ Answered(i, 502)
        /\ inv[i].calls = 3
        /\ inv[i].rl.before = 1
        /\ Len(rateLimitMap[inv[i].ip]) = 2

====
